---- MODULE Spec2Model ----
(***************************************************************************)
(* Model of pg_simple's keyed connection pool (src/pg_simple/pool.py):     *)
(* AbstractConnectionPool / SimpleConnectionPool.  One pool instance, its  *)
(* bookkeeping (_pool, _used, _rused, _tused, _keys, _disposed), the       *)
(* physical connections it creates through psycopg2.connect, and a         *)
(* discrete clock standing for time.time().                                *)
(*                                                                         *)
(* Connections are numbered: 1..created are the connections this pool      *)
(* created, in the order psycopg2.connect returned them.                   *)
(* Keys are pairs <<kind, n>>: <<"int", n>> is the Python int n,           *)
(* <<"str", n>> the string of length n ("" , "a", "aa"), None the absent   *)
(* key.  id(conn) is modelled by the connection number.                    *)
(*                                                                         *)
(* The pool is used call by call (SimpleConnectionPool has no lock and is  *)
(* single-threaded): a call runs to completion and leaves in ev what the   *)
(* caller sees of it, its arguments, the exception raised (or "ok"), the   *)
(* connection returned and the calls it made on the driver and on the free *)
(* list, in order; Return hands control back before the next call starts.  *)
(*                                                                         *)
(* Spec is that pool with connections whose close() works.  SpecFaults     *)
(* adds connections whose close() raises (failing) and the finalizer       *)
(* __del__.  SpecThreaded is a ThreadedConnectionPool called by Threads    *)
(* through its lock; SpecWorkers is the same pool under worker threads     *)
(* that each check a connection out, use it and check it in.               *)
(***************************************************************************)
EXTENDS Integers, Sequences, FiniteSets, TLC

VARIABLES pool, used, rused, tused, keys, disposed, disable_pooling,
          max_conn, now, created, closed, ev, failing, lock, pc, held

vars == <<pool, used, rused, tused, keys, disposed, disable_pooling,
          max_conn, now, created, closed, ev, failing, lock, pc, held>>

\* The threads' side of a ThreadedConnectionPool: the lock, each thread's
\* position and the connection each thread holds.
tvars == <<lock, pc, held>>

(* ------------------------------ bounds -------------------------------- *)
\* MaxConn (the max_conn the pool is constructed with) and expiration are
\* the pool's configuration; MaxCreated is the number of connections the
\* server grants (psycopg2.connect fails beyond it), MaxKeys the number of
\* keys _get_key hands out, MaxTime the last instant of the clock.
MaxConn == 1
expiration == 1
MaxTime == expiration
MaxCreated == 1
MaxKeys == 1
\* The number of connections the server grants a pool that does not pool.
MaxDirect == 2
\* The number of threads that share a ThreadedConnectionPool.
NThreads == 2

(* ------------------------------ values -------------------------------- *)
None == <<"none", 0>>
KInt(n) == <<"int", n>>
KStr(n) == <<"str", n>>

NoConn == 0

CallerKeys == {None, KInt(1), KStr(1)}

ThreadKeys == {None, KInt(1)}

TxStatus == {"IDLE", "INTRANS", "INERROR", "UNKNOWN"}

Conns == 1..created

Threads == 1..NThreads

NoThread == 0

EmptyMap == [x \in {} |-> 0]

Put(f, k, v) == [x \in (DOMAIN f) \cup {k} |-> IF x = k THEN v ELSE f[x]]

Del(f, k) == [x \in (DOMAIN f) \ {k} |-> f[x]]

Values(f) == {f[x] : x \in DOMAIN f}

Elems(s) == {s[i] : i \in 1..Len(s)}

\* Python truthiness of a key: None, 0 and "" are falsy.
Truthy(k) == k # None /\ k[2] # 0

IsStr(k) == k[1] = "str"

\* list.remove(c): drops the first occurrence of c.
RECURSIVE RemoveFirst(_, _)
RemoveFirst(s, c) ==
    IF s = <<>> THEN <<>>
    ELSE IF Head(s) = c THEN Tail(s)
    ELSE <<Head(s)>> \o RemoveFirst(Tail(s), c)

\* list.pop(): the last element, and the list without it.
PopConn(s) == s[Len(s)]

PopRest(s) == SubSeq(s, 1, Len(s) - 1)

(* ------------------------------ Init ---------------------------------- *)
NoEvent ==
    [op |-> "none", key |-> None, ekey |-> None, conn |-> NoConn,
     close |-> FALSE, fs |-> FALSE, status |-> "none",
     result |-> "ok", ret |-> NoConn, calls |-> <<>>]

\* No call is in progress or waiting to return.
Idle == ev = NoEvent

\* The pool __init__ leaves, constructed with max_conn = mc.
Constructed(mc) ==
    /\ pool = <<>>
    /\ used = EmptyMap
    /\ rused = EmptyMap
    /\ tused = EmptyMap
    /\ keys = 0
    /\ disposed = FALSE
    /\ disable_pooling \in BOOLEAN
    /\ max_conn = mc
    /\ now = 0
    /\ created = 0
    /\ closed = {}
    /\ ev = NoEvent
    /\ failing = {}
    /\ lock = NoThread
    /\ pc = [t \in Threads |-> "out"]
    /\ held = [t \in Threads |-> NoConn]

Init == Constructed(MaxConn)

(* ------------------------------ checkout ------------------------------ *)
\* _get_key: the next value of the counter.
get_key(k) == k + 1

Exhausted_OffByOne(u) == Cardinality(DOMAIN u) > max_conn

\* The capacity test of _get_conn, taken when the free list is empty.
Exhausted(u) == Cardinality(DOMAIN u) = max_conn

CheckoutRefused_AfterPoolingTest == disposed /\ ~disable_pooling

\* The first test of _get_conn: a disposed pool hands out nothing.
CheckoutRefused == disposed

ConnectFailed_Registered(st, k) ==
    [st EXCEPT !.used = Put(st.used, k, NoConn),
               !.result = "ConnectFailure",
               !.calls = <<<<"connect", NoConn>>>>]

\* psycopg2.connect raises in _connect: the exception leaves _connect and
\* _get_conn before any bookkeeping for key k is written.
ConnectFailed(st, k) ==
    [st EXCEPT !.result = "ConnectFailure",
               !.calls = <<<<"connect", NoConn>>>>]

KeyInUse_Never(k) == FALSE

\* The third test of _get_conn: the key already owns a connection.
KeyInUse(k) == k \in DOMAIN used

Bypass_Never == FALSE

\* The second test of _get_conn: without pooling, straight to _connect.
Bypass == disable_pooling

\* The state and outcome of _get_conn(key); connectOK tells whether
\* psycopg2.connect succeeds if it is called.
GetConn(key, connectOK) ==
    LET same == [pool |-> pool, used |-> used, rused |-> rused,
                 tused |-> tused, keys |-> keys, created |-> created,
                 ekey |-> key, result |-> "ok", ret |-> NoConn,
                 calls |-> <<>>]
        fresh == created + 1
    IN
    IF CheckoutRefused THEN [same EXCEPT !.result = "Disposed"]
    ELSE IF Bypass THEN
        IF connectOK
        THEN [same EXCEPT !.created = fresh, !.ret = fresh,
                          !.calls = <<<<"connect", fresh>>>>]
        ELSE ConnectFailed(same, key)
    ELSE
        LET nkeys == IF key = None THEN get_key(keys) ELSE keys
            k == IF key = None THEN KInt(nkeys) ELSE key
            st == [same EXCEPT !.keys = nkeys, !.ekey = k]
        IN
        IF KeyInUse(k) THEN [st EXCEPT !.ret = used[k]]
        ELSE IF pool # <<>> THEN
            LET conn == PopConn(pool) IN
            [st EXCEPT !.pool = PopRest(pool),
                       !.used = Put(used, k, conn),
                       !.rused = Put(rused, conn, k),
                       !.tused = Put(tused, conn, now),
                       !.ret = conn]
        ELSE IF Exhausted(used) THEN [st EXCEPT !.result = "Exhausted"]
        ELSE IF connectOK THEN
            [st EXCEPT !.used = Put(used, k, fresh),
                       !.rused = Put(rused, fresh, k),
                       !.tused = Put(tused, fresh, now),
                       !.created = fresh,
                       !.ret = fresh,
                       !.calls = <<<<"connect", fresh>>>>]
        ELSE ConnectFailed(st, k)

\* connectOK is read only by a call that reaches psycopg2.connect; the
\* other calls are taken with connectOK = TRUE alone.
get_conn(key, connectOK) ==
    LET r == GetConn(key, connectOK) IN
    /\ Idle
    /\ connectOK \/ r.result = "ConnectFailure"
    /\ pool' = r.pool
    /\ used' = r.used
    /\ rused' = r.rused
    /\ tused' = r.tused
    /\ keys' = r.keys
    /\ created' = r.created
    /\ ev' = [NoEvent EXCEPT !.op = "checkout", !.key = key,
                 !.ekey = r.ekey, !.result = r.result, !.ret = r.ret,
                 !.calls = r.calls]
    /\ UNCHANGED <<disposed, disable_pooling, max_conn, now, closed, failing>>

\* The step stays within c connections granted by the server (connect
\* fails beyond them) and k generated keys.
Within(c, k) == created' <= c /\ keys' <= k

(* ------------------------------ release ------------------------------ *)
\* The idle test of _purge_expired_connections for a timestamp t.
Expired(t) == now - t >= expiration

\* A bookkeeping state threaded through _release and the purge pass:
\* the free list, the timestamps, the closed connections, the calls made
\* so far and the exception raised, if any.
Book(p, t, cl, calls, err) ==
    [pool |-> p, tused |-> t, closed |-> cl, calls |-> calls, err |-> err]

\* conn.close(): the call is made; a connection of failing raises and
\* stays open, any other one is closed.
Close(conn, b) ==
    [b EXCEPT !.calls = Append(b.calls, <<"close", conn>>),
              !.closed = IF conn \in failing THEN b.closed
                         ELSE b.closed \cup {conn},
              !.err = IF conn \in failing THEN "CloseFailure" ELSE "none"]

\* _release(conn, remove_from_pool) with pooling enabled.
release(conn, remove_from_pool, b) ==
    IF remove_from_pool /\ conn \in Elems(b.pool)
    THEN IF conn \in DOMAIN b.tused
         THEN Close(conn, Book(RemoveFirst(b.pool, conn), Del(b.tused, conn),
                               b.closed, b.calls, "none"))
         ELSE Book(RemoveFirst(b.pool, conn), b.tused, b.closed,
                   b.calls, "KeyError")
    ELSE Close(conn, b)

\* The second loop of _purge_expired_connections: release every entry of
\* expiry_list in order, stopping at the first exception.
RECURSIVE ReleaseList(_, _)
ReleaseList(expiry_list, b) ==
    IF expiry_list = <<>> \/ b.err # "none" THEN b
    ELSE ReleaseList(Tail(expiry_list), release(Head(expiry_list), TRUE, b))

\* The first loop of _purge_expired_connections: the members of the free
\* list whose timestamp is at least expiration old.
ExpiryList(p, t) == SelectSeq(p, LAMBDA c : Expired(t[c]))

\* _purge_expired_connections with pooling enabled, from bookkeeping b.
\* Reading the timestamp of a member that has none raises KeyError.
Purge(b) ==
    IF \E c \in Elems(b.pool) : c \notin DOMAIN b.tused
    THEN [b EXCEPT !.err = "KeyError"]
    ELSE ReleaseList(ExpiryList(b.pool, b.tused), b)

purge_expired_connections ==
    /\ Idle
    /\ IF disable_pooling
       THEN /\ UNCHANGED <<pool, tused, closed>>
            /\ ev' = [NoEvent EXCEPT !.op = "purge"]
       ELSE LET b == Purge(Book(pool, tused, closed, <<>>, "none")) IN
            /\ pool' = b.pool
            /\ tused' = b.tused
            /\ closed' = b.closed
            /\ ev' = [NoEvent EXCEPT !.op = "purge", !.calls = b.calls,
                         !.result = IF b.err = "none" THEN "ok" ELSE b.err]
    /\ UNCHANGED <<used, rused, keys, disposed, disable_pooling, max_conn, now,
                   created, failing>>

(* ------------------------------ checkin ------------------------------- *)
\* The guard of the stow branch of _put_conn.
KeepInPool(p, close) == Len(p) < max_conn /\ ~close

\* The log line of _put_conn concatenates " key=" with a truthy key, which
\* raises TypeError unless the key is a string.
LogRaises(key) == Truthy(key) /\ ~IsStr(key)

\* The key _put_conn works with: the given one, else the reverse map's.
ResolveKey(conn, key) ==
    IF key # None THEN key
    ELSE IF conn \in DOMAIN rused THEN rused[conn] ELSE None

UnkeyedOutcome_Silent(fs) == IF fs THEN "ok" ELSE "Unkeyed"

\* What _put_conn does when it has no key to work with: it raises,
\* fail_silently or not.
UnkeyedOutcome(fs) == "Unkeyed"

\* The stow branch of _put_conn: what happens to conn before the purge.
\* st is what conn.get_transaction_status() reports.
Stow(conn, close, st) ==
    LET b == Book(pool, tused, closed, <<>>, "none") IN
    IF KeepInPool(pool, close)
    THEN IF conn \notin closed
         THEN IF st = "UNKNOWN"
              THEN [b EXCEPT !.err = "AttributeError"]
              ELSE IF st # "IDLE"
              THEN [b EXCEPT !.pool = Append(pool, conn),
                       !.calls = <<<<"rollback", conn>>, <<"append", conn>>>>]
              ELSE [b EXCEPT !.pool = Append(pool, conn),
                             !.calls = <<<<"append", conn>>>>]
         ELSE b
    ELSE release(conn, FALSE, b)

\* The guard of the final bookkeeping removal of _put_conn.
RemoveKey(k) == ~disposed \/ k \in DOMAIN used

\* The state and outcome of _put_conn(conn, key, close, fail_silently).
PutConn(conn, key, close, fs, st) ==
    LET same == [pool |-> pool, used |-> used, rused |-> rused,
                 tused |-> tused, closed |-> closed, ekey |-> key,
                 result |-> "ok", calls |-> <<>>]
    IN
    IF disable_pooling
    THEN LET b == Close(conn, Book(pool, tused, closed, <<>>, "none")) IN
         [same EXCEPT !.closed = b.closed, !.calls = b.calls,
                      !.result = IF b.err = "none" THEN "ok" ELSE b.err]
    ELSE IF LogRaises(key) THEN [same EXCEPT !.result = "TypeError"]
    ELSE IF disposed
    THEN IF fs THEN same ELSE [same EXCEPT !.result = "Disposed"]
    ELSE
        LET k == ResolveKey(conn, key) IN
        IF ~Truthy(k)
        THEN [same EXCEPT !.ekey = k, !.result = UnkeyedOutcome(fs)]
        ELSE
        LET s == Stow(conn, close, st)
            b == IF s.err = "none" THEN Purge(s) ELSE s
            after == [same EXCEPT !.pool = b.pool, !.tused = b.tused,
                                  !.closed = b.closed, !.calls = b.calls,
                                  !.ekey = k]
        IN
        IF b.err # "none" THEN [after EXCEPT !.result = b.err]
        ELSE IF ~RemoveKey(k) THEN after
        ELSE IF k \notin DOMAIN used THEN [after EXCEPT !.result = "KeyError"]
        ELSE IF conn \notin DOMAIN rused
        THEN [after EXCEPT !.used = Del(used, k), !.result = "KeyError"]
        ELSE [after EXCEPT !.used = Del(used, k), !.rused = Del(rused, conn)]

\* st is the transaction status conn is in when it is handed back.
\* fail_silently is read only on a disposed pool, and the transaction
\* status only for an open connection handed back without close to an
\* active pool; the other calls are taken with fs = FALSE and st = "IDLE",
\* except that a call that finds no key is taken with fs = TRUE as well.
put_conn(conn, key, close, fs, st) ==
    LET r == PutConn(conn, key, close, fs, st) IN
    /\ Idle
    /\ fs => (disposed \/ (~disable_pooling /\ ~LogRaises(key)
                              /\ ~Truthy(ResolveKey(conn, key))))
    /\ st # "IDLE" =>
           (~close /\ conn \notin closed /\ ~disposed /\ ~disable_pooling)
    /\ pool' = r.pool
    /\ used' = r.used
    /\ rused' = r.rused
    /\ tused' = r.tused
    /\ closed' = r.closed
    /\ ev' = [NoEvent EXCEPT !.op = "checkin", !.key = key,
                 !.ekey = r.ekey, !.conn = conn, !.close = close,
                 !.fs = fs, !.status = st, !.result = r.result,
                 !.calls = r.calls]
    /\ UNCHANGED <<keys, disposed, disable_pooling, max_conn, now, created, failing>>

(* ------------------------------ dispose ------------------------------- *)
\* A rank that orders the keys: 1, "a", 2, "aa", ...
KeyRank(k) == IF IsStr(k) THEN 2 * k[2] + 1 ELSE 2 * k[2]

\* The keys of a set in rank order.
RECURSIVE KeyList(_)
KeyList(S) ==
    IF S = {} THEN <<>>
    ELSE LET k == CHOOSE x \in S : \A y \in S : KeyRank(x) <= KeyRank(y)
         IN <<k>> \o KeyList(S \ {k})

\* list(self._used.values()): one entry per key, so a connection held
\* under two keys is listed twice.  The dict's own order is not modelled;
\* the keys are taken in rank order.
UsedValues ==
    LET ks == KeyList(DOMAIN used) IN [i \in 1..Len(ks) |-> used[ks[i]]]

\* close_list of _release_all: the free list, then the connections in use.
CloseList == pool \o UsedValues

CloseQuietly_Propagates(err) == err

\* The except clause around conn.close() in _release_all: whatever close()
\* raised is dropped.
CloseQuietly(err) == "none"

\* The loop of _release_all over close_list, stopping at an exception that
\* gets out of the loop body.
RECURSIVE CloseAll(_, _)
CloseAll(list, b) ==
    IF list = <<>> \/ b.err # "none" THEN b
    ELSE LET c == Close(Head(list), b) IN
         CloseAll(Tail(list), [c EXCEPT !.err = CloseQuietly(c.err)])

\* The test of _release_all that refuses a second disposal.
DisposeRefused == disposed

\* The state and outcome of _release_all().  gcOK tells whether
\* gc.collect() works: it raises in an interpreter that is shutting down,
\* and _release_all then returns at once.
ReleaseAll(gcOK) ==
    LET same == [pool |-> pool, used |-> used, disposed |-> disposed,
                 closed |-> closed, result |-> "ok", calls |-> <<>>]
    IN
    IF ~gcOK THEN same
    ELSE IF DisposeRefused THEN [same EXCEPT !.result = "Disposed"]
    ELSE
        LET b == IF disable_pooling
                 THEN Book(pool, tused, closed, <<>>, "none")
                 ELSE CloseAll(CloseList, Book(pool, tused, closed, <<>>, "none"))
        IN
        IF b.err # "none"
        THEN [same EXCEPT !.closed = b.closed, !.calls = b.calls,
                          !.result = b.err]
        ELSE [same EXCEPT !.pool = <<>>, !.used = EmptyMap,
                          !.disposed = TRUE, !.closed = b.closed,
                          !.calls = b.calls]

\* An explicit call is made by a running program, where gc.collect()
\* works.
release_all ==
    LET r == ReleaseAll(TRUE) IN
    /\ Idle
    /\ pool' = r.pool
    /\ used' = r.used
    /\ disposed' = r.disposed
    /\ closed' = r.closed
    /\ ev' = [NoEvent EXCEPT !.op = "dispose", !.result = r.result,
                 !.calls = r.calls]
    /\ UNCHANGED <<rused, tused, keys, disable_pooling, max_conn, now, created,
                   failing>>

\* __del__: the interpreter destroys the pool object, which runs
\* _release_all.  What it raises is left in ev; nothing is called on the
\* pool afterwards.
del(gcOK) ==
    LET r == ReleaseAll(gcOK) IN
    /\ Idle
    /\ pool' = r.pool
    /\ used' = r.used
    /\ disposed' = r.disposed
    /\ closed' = r.closed
    /\ ev' = [NoEvent EXCEPT !.op = "del", !.result = r.result,
                 !.calls = r.calls, !.fs = ~gcOK]
    /\ UNCHANGED <<rused, tused, keys, disable_pooling, max_conn, now, created,
                   failing>>

(* ------------------------------ environment --------------------------- *)
\* The connection breaks in a way that makes its close() raise from now on.
CloseBreaks(c) ==
    /\ Idle
    /\ c \notin closed
    /\ c \notin failing
    /\ failing' = failing \cup {c}
    /\ UNCHANGED <<pool, used, rused, tused, keys, disposed,
                   disable_pooling, max_conn, now, created, closed, ev>>

\* The borrower (or the server) closes a connection that is checked out.
ConnClosed(c) ==
    /\ Idle
    /\ c \in Values(used)
    /\ c \notin closed
    /\ closed' = closed \cup {c}
    /\ UNCHANGED <<pool, used, rused, tused, keys, disposed,
                   disable_pooling, max_conn, now, created, ev, failing>>

\* Time passes.
Tick ==
    /\ Idle
    /\ now < MaxTime
    /\ now' = now + 1
    /\ UNCHANGED <<pool, used, rused, tused, keys, disposed,
                   disable_pooling, max_conn, created, closed, ev, failing>>

\* The call returns to its caller.  The finalizer has no caller, and the
\* pool is gone once it has run.
Return ==
    /\ ~Idle
    /\ ev.op # "del"
    /\ ev' = NoEvent
    /\ UNCHANGED <<pool, used, rused, tused, keys, disposed,
                   disable_pooling, max_conn, now, created, closed, failing>>

\* A SimpleConnectionPool and its single caller.
Next ==
    \/ \E key \in CallerKeys, ok \in BOOLEAN :
          /\ get_conn(key, ok)
          /\ Within(IF disable_pooling THEN MaxDirect ELSE MaxCreated, MaxKeys)
          /\ UNCHANGED tvars
    \/ \E conn \in Conns, key \in CallerKeys, close \in BOOLEAN,
          fs \in BOOLEAN, st \in TxStatus :
          put_conn(conn, key, close, fs, st) /\ UNCHANGED tvars
    \/ purge_expired_connections /\ UNCHANGED tvars
    \/ release_all /\ UNCHANGED tvars
    \/ \E c \in Conns : ConnClosed(c) /\ UNCHANGED tvars
    \/ Tick /\ UNCHANGED tvars
    \/ Return /\ UNCHANGED tvars

Spec == Init /\ [][Next]_vars

\* The same pool with connections whose close() raises, and its finalizer;
\* the caller leaves the keys to the pool.
NextFaults ==
    \/ \E ok \in BOOLEAN :
          /\ get_conn(None, ok)
          /\ Within(MaxCreated + 1, MaxKeys + 1)
          /\ UNCHANGED tvars
    \/ \E conn \in Conns, close \in BOOLEAN, fs \in BOOLEAN, st \in TxStatus :
          put_conn(conn, None, close, fs, st) /\ UNCHANGED tvars
    \/ purge_expired_connections /\ UNCHANGED tvars
    \/ release_all /\ UNCHANGED tvars
    \/ \E c \in Conns : ConnClosed(c) /\ UNCHANGED tvars
    \/ Tick /\ UNCHANGED tvars
    \/ Return /\ UNCHANGED tvars
    \/ \E c \in Conns : CloseBreaks(c) /\ UNCHANGED tvars
    \/ \E gcOK \in BOOLEAN : del(gcOK) /\ UNCHANGED tvars

\* A pool one connection larger than MaxConn, so that a disposal or a
\* purge has a second connection to go on with after a close() failed.
InitFaults == Constructed(MaxConn + 1)

SpecFaults == InitFaults /\ [][NextFaults]_vars

(* ------------------------------ threads ------------------------------- *)
\* The pool's own state, which the threads' steps outside a call leave
\* alone.
pvars == <<pool, used, rused, tused, keys, disposed, disable_pooling,
           max_conn, now, created, closed, failing>>

LockFree_Always == TRUE

\* threading.Lock.acquire() goes through when the lock is free.
LockFree == lock = NoThread

\* self._lock.acquire(), the first line of get_conn, put_conn,
\* purge_expired_connections and release_all of ThreadedConnectionPool.
acquire(t) ==
    /\ pc[t] = "out"
    /\ LockFree
    /\ lock' = t
    /\ pc' = [pc EXCEPT ![t] = "locked"]
    /\ UNCHANGED <<pvars, ev, held>>

\* The try block of thread t's call: the body runs, with the lock as
\* acquire left it.
Enter(t) ==
    /\ pc[t] = "locked"
    /\ pc' = [pc EXCEPT ![t] = "done"]
    /\ lock' = lock

InCall(t) == Enter(t) /\ held' = held

\* The finally block: self._lock.release(), after which the call returns
\* or raises what the body raised.
unlock(t) ==
    /\ pc[t] = "done"
    /\ lock' = NoThread
    /\ pc' = [pc EXCEPT ![t] = "out"]
    /\ ev' = NoEvent
    /\ UNCHANGED <<pvars, held>>

\* A ThreadedConnectionPool and threads that call it with no key or with
\* an integer key.
NextThreaded ==
    \/ \E t \in Threads : acquire(t)
    \/ \E t \in Threads, ok \in BOOLEAN :
          /\ InCall(t)
          /\ \E key \in ThreadKeys : get_conn(key, ok)
          /\ Within(IF disable_pooling THEN MaxDirect ELSE MaxCreated,
                    MaxKeys + 1)
    \/ \E t \in Threads, conn \in Conns, close \in BOOLEAN, fs \in BOOLEAN,
          st \in TxStatus :
          InCall(t) /\ \E key \in ThreadKeys : put_conn(conn, key, close, fs, st)
    \/ \E t \in Threads : InCall(t) /\ purge_expired_connections
    \/ \E t \in Threads : InCall(t) /\ release_all
    \/ \E t \in Threads : unlock(t)
    \/ \E c \in Conns : ConnClosed(c) /\ UNCHANGED tvars
    \/ Tick /\ UNCHANGED tvars

SpecThreaded == Init /\ [][NextThreaded]_vars

\* Thread t, holding no connection, checks one out without a key and
\* keeps what the call returns.
WorkerCheckout(t, ok) ==
    /\ Enter(t)
    /\ held[t] = NoConn
    /\ get_conn(None, ok)
    /\ Within(MaxCreated + 1, MaxKeys + 2)
    /\ held' = [held EXCEPT ![t] = ev'.ret]

\* Thread t has used its connection, which is now in transaction status
\* st, and checks it in; it lets go of the connection whatever the call
\* does.
WorkerCheckin(t, st) ==
    /\ Enter(t)
    /\ held[t] # NoConn
    /\ put_conn(held[t], None, FALSE, FALSE, st)
    /\ held' = [held EXCEPT ![t] = NoConn]

\* Worker threads that each repeat checkout, use, checkin.
NextWorkers ==
    \/ \E t \in Threads : acquire(t)
    \/ \E t \in Threads, ok \in BOOLEAN : WorkerCheckout(t, ok)
    \/ \E t \in Threads, st \in TxStatus : WorkerCheckin(t, st)
    \/ \E t \in Threads : unlock(t)
    \/ \E c \in Conns : ConnClosed(c) /\ UNCHANGED tvars
    \/ Tick /\ UNCHANGED tvars

\* The workers' pool has pooling enabled and room for NThreads connections
\* or fewer.
InitWorkers ==
    \E mc \in 1..NThreads : Constructed(mc) /\ ~disable_pooling

SpecWorkers == InitWorkers /\ [][NextWorkers]_vars

(* ------------------------------ properties ---------------------------- *)
Pooled == ~disable_pooling

\* This step is a call of op: it starts from Idle and leaves its outcome
\* in ev'.
Called(op) == Idle /\ ev'.op = op

\* How many times call occurs in a list of calls.
CountCalls(calls, call) ==
    Cardinality({i \in 1..Len(calls) : calls[i] = call})

\* The places of call in a list of calls.
Places(calls, call) == {i \in 1..Len(calls) : calls[i] = call}

NoDuplicates(p) ==
    \A i, j \in 1..Len(p) : i # j => p[i] # p[j]

Injective(f) ==
    \A a, b \in DOMAIN f : a # b => f[a] # f[b]

\* C1: with pooling enabled, after every sequence of calls (failed ones
\* included) the number of Used entries plus the number of Free members is
\* at most max_conn.
C1_CapacityBound ==
    Pooled => Cardinality(DOMAIN used) + Len(pool) <= max_conn

\* C2: between operations no connection is both in the Free set and a
\* value of the Used map, none appears twice in the Free set, and none is
\* the value of two Used keys.
C2_OneHolder ==
    (Pooled /\ Idle) =>
        /\ Elems(pool) \cap Values(used) = {}
        /\ NoDuplicates(pool)
        /\ Injective(used)

\* C3: on an active pool with pooling enabled, a checkout for a key that is
\* not in the Used map, made when |Used| = max_conn and the Free set is
\* empty, fails in that very call with Exhausted, calls connect zero times
\* and leaves the Used map and the Free set unchanged.
C3_ExhaustedAtOnce ==
    [][(/\ Called("checkout")
        /\ Pooled /\ ~disposed
        /\ ev'.ekey \notin DOMAIN used
        /\ Cardinality(DOMAIN used) = max_conn
        /\ pool = <<>>)
       => (/\ ev'.result = "Exhausted"
           /\ ev'.ret = NoConn
           /\ ev'.calls = <<>>
           /\ created' = created
           /\ used' = used
           /\ pool' = pool)]_vars

C3_Witness ==
    /\ ev.op = "checkout"
    /\ ev.result = "Exhausted"
    /\ Pooled /\ ~disposed
    /\ ev.ekey \notin DOMAIN used
    /\ Cardinality(DOMAIN used) = max_conn
    /\ pool = <<>>

\* The connection this checkin hands back is open, the call does not ask
\* for a close, and it gets past the pool's argument checks: pooling is
\* enabled, the pool is active and the call names (or the reverse map
\* knows) the key under which the connection is checked out.
StowedBack ==
    /\ Called("checkin")
    /\ Pooled /\ ~disposed
    /\ ~ev'.close
    /\ ev'.conn \notin closed
    /\ ev'.ekey \in DOMAIN used
    /\ used[ev'.ekey] = ev'.conn

\* C4: a connection checked in without close while Idle is the one the very
\* next checkout of a key not currently held returns, with no connect call,
\* however long it had been checked out: the checkin leaves it at the end
\* of the Free list, and a checkout of a key not held, with a non-empty
\* Free list, returns the end of the Free list (the most recently freed).
C4_ReuseMostRecent ==
    [][/\ (StowedBack /\ ev'.status = "IDLE" /\ ev'.result = "ok")
            => (pool' # <<>> /\ pool'[Len(pool')] = ev'.conn)
       /\ (/\ Called("checkout") /\ Pooled /\ ~disposed
           /\ ev'.ekey \notin DOMAIN used /\ pool # <<>>)
            => (/\ ev'.result = "ok"
                /\ ev'.ret = pool[Len(pool)]
                /\ ev'.calls = <<>>
                /\ created' = created)]_vars

\* C5: when an open connection is checked in without close while its
\* transaction status is InTransaction or Error, rollback() is invoked on
\* it exactly once and before it is put into the Free list; rollback() is
\* never invoked for a connection checked in while Idle.
C5_RollbackOnce ==
    [][/\ (StowedBack /\ ev'.status \in {"INTRANS", "INERROR"}
                      /\ ev'.result = "ok")
            => (/\ CountCalls(ev'.calls, <<"rollback", ev'.conn>>) = 1
                /\ \E i \in Places(ev'.calls, <<"rollback", ev'.conn>>) :
                   \E j \in Places(ev'.calls, <<"append", ev'.conn>>) : i < j)
       /\ (Called("checkin") /\ ev'.status = "IDLE")
            => CountCalls(ev'.calls, <<"rollback", ev'.conn>>) = 0]_vars

\* C6: when an open connection is checked in without close while its
\* transaction status is Unknown, the pool closes it, the checkin
\* completes, the connection leaves the Used map and does not enter the
\* Free list (so that no later checkout can return it).
C6_UnknownDiscarded ==
    [][(StowedBack /\ ev'.status = "UNKNOWN" /\ ~LogRaises(ev'.key))
            => (/\ ev'.result = "ok"
                /\ CountCalls(ev'.calls, <<"close", ev'.conn>>) >= 1
                /\ ev'.conn \in closed'
                /\ ev'.conn \notin Values(used')
                /\ ev'.conn \notin Elems(pool'))]_vars

\* C7: after purgeExpired() returns on a pool with pooling enabled, every
\* connection left in the Free list has been idle for less than expiration,
\* every connection the purge removed had close() invoked on it exactly
\* once, and no connection of the Used map was closed or removed by it.
C7_PurgeExact ==
    [][(Called("purge") /\ Pooled /\ ev'.result = "ok")
            => (/\ \A c \in Elems(pool') :
                      c \in DOMAIN tused' /\ ~Expired(tused'[c])
                /\ \A c \in Elems(pool) \ Elems(pool') :
                      CountCalls(ev'.calls, <<"close", c>>) = 1
                /\ \A c \in Values(used) :
                      /\ CountCalls(ev'.calls, <<"close", c>>) = 0
                      /\ c \in closed' => c \in closed
                /\ used' = used)]_vars

\* C8: idle time is measured from the moment the connection entered the
\* Free list: a connection checked in while Idle, even after having been
\* checked out for longer than expiration, is not closed by the purge pass
\* of that same checkin and is still in the Free list when the call ends.
C8_IdleSinceFreed ==
    [][(StowedBack /\ ev'.status = "IDLE" /\ ev'.result = "ok"
                   /\ Len(pool) < max_conn)
            => (/\ CountCalls(ev'.calls, <<"close", ev'.conn>>) = 0
                /\ ev'.conn \notin closed'
                /\ ev'.conn \in Elems(pool'))]_vars

\* C9: once dispose() has completed the disposed flag stays true, every
\* later checkout (with or without key, pooling enabled or disabled) fails
\* with Disposed without calling connect, and every later dispose() fails
\* with Disposed without closing anything.
C9_DisposedForGood ==
    [][disposed =>
          /\ disposed'
          /\ Called("checkout")
                => (/\ ev'.result = "Disposed" /\ ev'.ret = NoConn
                    /\ ev'.calls = <<>> /\ created' = created)
          /\ Called("dispose")
                => (/\ ev'.result = "Disposed" /\ ev'.calls = <<>>
                    /\ closed' = closed)]_vars

C9_Witness ==
    /\ disposed
    /\ disable_pooling
    /\ ev.op = "checkout"
    /\ ev.result = "Disposed"
    /\ created > 0

\* C10: after dispose(), with pooling enabled, checkin(conn,
\* failSilently=true) is a silent no-op for every conn and key: it raises
\* nothing, invokes neither close() nor rollback() and changes no pool
\* state; with failSilently=false it fails with Disposed and changes no
\* pool state either.
C10_CheckinAfterDispose ==
    [][(Called("checkin") /\ Pooled /\ disposed)
            => (/\ ev'.result = IF ev'.fs THEN "ok" ELSE "Disposed"
                /\ ev'.calls = <<>>
                /\ UNCHANGED <<pool, used, rused, tused, keys, disposed,
                               closed>>)]_vars

\* C11: with disable_pooling on an active pool, every checkout calls
\* connect exactly once and returns that new connection (one never returned
\* before), every checkin invokes close() on the given connection exactly
\* once, and the Free list, the Used map, the Reverse map and the timestamp
\* map are empty after every operation.
C11_PoolingDisabled ==
    [][disable_pooling =>
          /\ (Called("checkout") /\ ~disposed)
                => /\ Len(ev'.calls) = 1
                   /\ ev'.calls[1][1] = "connect"
                   /\ ev'.result \in {"ok", "ConnectFailure"}
                   /\ ev'.result = "ok"
                        => (/\ ev'.ret = created + 1
                            /\ created' = created + 1
                            /\ ev'.calls = <<<<"connect", ev'.ret>>>>)
          /\ (Called("checkin") /\ ~disposed)
                => /\ ev'.calls = <<<<"close", ev'.conn>>>>
                   /\ ev'.result = "ok"
                   /\ ev'.conn \in closed'
          /\ pool' = <<>>
          /\ used' = EmptyMap
          /\ rused' = EmptyMap
          /\ tused' = EmptyMap]_vars

C11_Witness ==
    /\ disable_pooling /\ ~disposed
    /\ ev.op = "checkin"
    /\ ev.conn = 2
    /\ ev.calls = <<<<"close", 2>>>>
    /\ 1 \in closed

\* C12: every key the pool generates for a checkout without a key is
\* greater than every key it generated before and is not a key of the Used
\* map at that moment (caller-supplied keys included), so that a key-less
\* checkout never returns a connection that is already checked out.
C12_FreshKey ==
    [][(Called("checkout") /\ Pooled /\ ~disposed /\ ev'.key = None)
            => (/\ keys' > keys
                /\ ev'.ekey = KInt(keys')
                /\ ev'.ekey \notin DOMAIN used
                /\ ev'.ret \notin Values(used))]_vars

\* C13: dispose() on an active pool with pooling enabled invokes close()
\* on every connection of the Free list and on every value of the Used map,
\* goes on with the remaining connections when a close() fails (every
\* connection whose close() works ends closed), lets no close failure out,
\* and ends with the disposed flag set and the Free list and the Used map
\* empty; and whenever the pool is disposed both are empty.
C13_DisposeClosesAll ==
    [][/\ (Called("dispose") /\ Pooled /\ ~disposed)
            => (/\ ev'.result = "ok"
                /\ \A c \in Elems(pool) \cup Values(used) :
                      /\ CountCalls(ev'.calls, <<"close", c>>) >= 1
                      /\ c \notin failing => c \in closed'
                /\ Len(ev'.calls) = Len(pool) + Cardinality(DOMAIN used)
                /\ disposed'
                /\ pool' = <<>>
                /\ used' = EmptyMap)
       /\ disposed' => (pool' = <<>> /\ used' = EmptyMap)]_vars

\* A disposal has met a close() that failed on its first connection and
\* has closed the next one.
C13_Witness ==
    /\ Pooled /\ disposed
    /\ ev.op = "dispose"
    /\ ev.result = "ok"
    /\ Len(ev.calls) = 2
    /\ ev.calls[1][2] \in failing
    /\ ev.calls[1][2] \notin closed
    /\ ev.calls[2][2] \notin failing
    /\ ev.calls[2][2] \in closed
    /\ pool = <<>>
    /\ used = EmptyMap

\* C14: the finalizer of a pool that an explicit dispose() has already
\* disposed raises no error and changes no state, while an explicit second
\* dispose() still fails with Disposed.
C14_TeardownTolerant ==
    [][disposed =>
          /\ Called("del")
                => (/\ ev'.result = "ok"
                    /\ ev'.calls = <<>>
                    /\ UNCHANGED <<pool, used, rused, tused, keys, disposed,
                                   closed>>)
          /\ Called("dispose") => ev'.result = "Disposed"]_vars

\* The threads that are inside a call, between acquire and release.
Inside == {t \in Threads : pc[t] # "out"}

Open == {c \in Conns : c \notin closed}

\* C16: with the threaded pool and NThreads worker threads that each repeat
\* checkout without a key, use, checkin, under every interleaving no
\* connection is held by two threads at once, at most max_conn connections
\* exist at once, a connection that a checkin left in the Free list is at
\* its end and is what the next checkout, by whichever thread, returns, and
\* when NThreads <= max_conn no checkout fails with Exhausted.
C16_Workers ==
    [][/\ \A t, u \in Threads :
             (held'[t] # NoConn /\ held'[t] = held'[u]) => t = u
       /\ Cardinality(Open') <= max_conn
       /\ (Called("checkin") /\ ev'.conn \in Elems(pool'))
            => pool'[Len(pool')] = ev'.conn
       /\ (Called("checkout") /\ pool # <<>>)
            => (/\ ev'.result = "ok"
                /\ ev'.ret = pool[Len(pool)]
                /\ ev'.calls = <<>>)
       /\ (Called("checkout") /\ NThreads <= max_conn)
            => ev'.result # "Exhausted"]_vars

\* C17: when connect fails during a checkout, the failure reaches the
\* caller, connect was attempted exactly once, and the Used map, the
\* Reverse map, the timestamp map and the Free list are as before the call,
\* so that the capacity that was available still is.
C17_ConnectFailure ==
    [][(Called("checkout")
          /\ \E i \in 1..Len(ev'.calls) : ev'.calls[i] = <<"connect", NoConn>>)
            => (/\ ev'.result = "ConnectFailure"
                /\ ev'.ret = NoConn
                /\ ev'.calls = <<<<"connect", NoConn>>>>
                /\ UNCHANGED <<pool, used, rused, tused, created, closed>>
                /\ Pooled => ~Exhausted(used'))]_vars

\* A connect has failed in a pool that has a connection checked out and
\* room for another.
C17_Witness ==
    /\ Pooled /\ ~disposed
    /\ ev.op = "checkout"
    /\ ev.result = "ConnectFailure"
    /\ used # EmptyMap
    /\ pool = <<>>

\* The Free list holds an expired connection, other than conn, whose
\* close() raises.
ExpiredFailing(conn) ==
    \E c \in Elems(pool) \cap failing :
        c # conn /\ c \in DOMAIN tused /\ Expired(tused[c])

\* C18: a close() failure on an expired connection during an eviction
\* pass is swallowed.  A purgeExpired that meets one does not fail and
\* still closes and removes every expired connection; a checkin whose purge
\* pass meets one does not fail and still removes its key from the Used map
\* and its connection from the Reverse map.
C18_EvictionSwallows ==
    [][/\ (Called("purge") /\ Pooled /\ ExpiredFailing(NoConn))
            => (/\ ev'.result = "ok"
                /\ \A c \in Elems(pool) :
                      Expired(tused[c])
                        => (/\ c \notin Elems(pool')
                            /\ CountCalls(ev'.calls, <<"close", c>>) = 1))
       /\ (StowedBack /\ ev'.status # "UNKNOWN" /\ ExpiredFailing(ev'.conn))
            => (/\ ev'.result = "ok"
                /\ ev'.ekey \notin DOMAIN used'
                /\ ev'.conn \notin DOMAIN rused')]_vars

\* C19: for every key k and conn = checkout(k) on an active pool with
\* pooling enabled, checkin(conn, key=k) with conn open and Idle succeeds
\* and does what checkin(conn) does: conn is in the Free list afterwards, k
\* is out of the Used map and conn out of the Reverse map.  (The checkin
\* is one that finds room in the Free list and whose connection has not
\* been out for expiration or longer.)
C19_ExplicitKey ==
    [][(/\ StowedBack
        /\ ev'.key # None
        /\ ev'.status = "IDLE"
        /\ Len(pool) < max_conn
        /\ ev'.conn \notin Elems(pool)
        /\ ev'.conn \in DOMAIN rused
        /\ ev'.conn \in DOMAIN tused
        /\ ~Expired(tused[ev'.conn]))
            => (/\ ev'.result = "ok"
                /\ ev'.conn \in Elems(pool')
                /\ ev'.key \notin DOMAIN used'
                /\ ev'.conn \notin DOMAIN rused')]_vars

\* C20: on an active pool with pooling enabled, a checkin of a connection
\* given without a key and with no entry in the Reverse map fails with the
\* un-keyed release error whether failSilently is true or false, invokes
\* neither close() nor rollback() on the connection and leaves the Free
\* list, the Used map and the Reverse map unchanged.
C20_UnkeyedRelease ==
    [][(Called("checkin") /\ Pooled /\ ~disposed
          /\ ev'.key = None /\ ev'.conn \notin DOMAIN rused)
            => (/\ ev'.result = "Unkeyed"
                /\ ev'.calls = <<>>
                /\ UNCHANGED <<pool, used, rused, tused, closed>>)]_vars

\* A second checkin of a connection that is back in the Free list, made
\* without a key and with failSilently, has failed.
C20_Witness ==
    /\ Pooled /\ ~disposed
    /\ ev.op = "checkin"
    /\ ev.key = None
    /\ ev.fs
    /\ ev.result = "Unkeyed"
    /\ ev.conn \in Elems(pool)
    /\ ev.conn \notin DOMAIN rused

\* C21: on an active pool with pooling enabled, a checkout under a key the
\* caller names and that is already in the Used map returns the connection
\* Used[k], calls connect zero times, does not fail (not with Exhausted
\* either, though the Used map may be full) and leaves the Free list, the
\* Used map and the Reverse map unchanged.
C21_RecheckoutIdempotent ==
    [][(Called("checkout") /\ Pooled /\ ~disposed
          /\ ev'.key # None /\ ev'.key \in DOMAIN used)
            => (/\ ev'.result = "ok"
                /\ ev'.ret = used[ev'.key]
                /\ ev'.calls = <<>>
                /\ UNCHANGED <<pool, used, rused>>)]_vars

\* A checkout under a named key has returned a connection whose timestamp
\* is older than the clock, so it was neither created nor popped by this
\* call, while the Used map is full and the Free list empty.
C21_Witness ==
    /\ Pooled /\ ~disposed
    /\ ev.op = "checkout"
    /\ ev.key # None
    /\ ev.result = "ok"
    /\ ev.ret # NoConn
    /\ ev.key \in DOMAIN used
    /\ used[ev.key] = ev.ret
    /\ ev.ret \in DOMAIN tused
    /\ tused[ev.ret] < now
    /\ Cardinality(DOMAIN used) = max_conn
    /\ pool = <<>>

\* C22: in every state between calls of a pool with pooling enabled, the
\* Reverse map is the inverse of the Used map: Used[k] = c exactly when
\* Reverse[c] = k, and no connection has a Reverse entry without being a
\* value of the Used map; after a disposal both are empty.
C22_ReverseIsInverse ==
    (Pooled /\ Idle) =>
        /\ \A k \in DOMAIN used :
               used[k] \in DOMAIN rused /\ rused[used[k]] = k
        /\ \A c \in DOMAIN rused :
               rused[c] \in DOMAIN used /\ used[rused[c]] = c
        /\ disposed => (used = EmptyMap /\ rused = EmptyMap)

\* C23: in every state between calls of a pool with pooling enabled, the
\* connections that have a Last-used timestamp are exactly the members of
\* the Free list: a checked-out connection has none, and neither has one
\* that was closed or discarded by a checkin, a purge or a disposal.
C23_TimestampsOfFree ==
    (Pooled /\ Idle) => DOMAIN tused = Elems(pool)

\* C24: a checkin that fails leaves the pool as it was.  In particular, on
\* an active pool with pooling enabled, a checkin that names a key which is
\* not in the Used map does not add the connection to the Free list, does
\* not close it and changes neither the Used map nor the Reverse map.
C24_FailedCheckinNoEffect ==
    [][Called("checkin") =>
        /\ ev'.result # "ok"
              => UNCHANGED <<pool, used, rused, tused, closed>>
        /\ (Pooled /\ ~disposed /\ ev'.key # None
               /\ ev'.key \notin DOMAIN used)
              => (/\ ev'.calls = <<>>
                  /\ UNCHANGED <<pool, used, rused, closed>>)]_vars

====
